---- MODULE Spec2Model ----
(***************************************************************************)
(* Watcher task engine of pwt.dynamic_watch_expression.                    *)
(*                                                                         *)
(* core.py runs every watcher on one sched.scheduler thread: a tick runs   *)
(* the fetch plugins, evaluates the expression, counts attempts against    *)
(* the tolerance and runs the execute plugins.  plugin.py wraps every      *)
(* plugin's execute in Timeout (a one-worker ThreadPoolExecutor) and       *)
(* SimpleRetry.  expression.py evaluates the set-algebra expression.       *)
(*                                                                         *)
(* Two threads act: the scheduler thread (RunEvent .. Finish) and the      *)
(* executor's single worker (WorkerStart, WorkerReturn, WorkerRaise).      *)
(* Times in the scheduler queue are kept relative to the current time.     *)
(***************************************************************************)
EXTENDS Integers, Sequences, FiniteSets, TLC

\* ---------------------------------------------------------------- bounds
NumWatchers == 2
NumFetches == 2
NumExecutes == 1
MaxTolerance == 2
MaxRetries == 1
MaxInterval == 2
MaxPending == 2
MaxLen == 2
MaxTokens == 5

Values == {"a"}
Results == {<<>>, <<"a">>}
ExtraKeys == {"k"}
FetchNames == <<"f1", "f2", "f3">>

VARIABLES
    context,    \* Context object of every watcher (entitiy.py Context)
    queue,      \* events of the sched.scheduler, times relative to now
    pc,         \* position of the scheduler thread
    cur,        \* watcher whose _watcher_task is running (0: none)
    target,     \* "fetches" or "executes": the list _execute_plugins walks
    idx,        \* index of the plugin the loop of _execute_plugins is at
    tries,      \* failed attempts of SimpleRetry in the current wrapped call
    done,       \* the awaited future has completed
    workq,      \* work items submitted to _executor and not yet started
    running,    \* <<item>> the worker thread is running, or <<>>
    tick,       \* history of the running tick: attempts before, result, log
    streak,     \* history: consecutive true evaluations since reset, per watcher
    expr        \* an Expression on its own: text, variables, tree, result

vars == <<context, queue, pc, cur, target, idx, tries, done, workq, running,
          tick, streak, expr>>

\* ------------------------------------------------------------ expression
None == [none |-> TRUE]
List(s) == [list |-> s]
Range(s) == {s[i] : i \in DOMAIN s}

Empty == [op |-> "EMPTY"]
Variable(n) == [op |-> "VARIABLE", name |-> n]
Node(o, l, r) == [op |-> o, l |-> l, r |-> r]

ComparisonOps == {"equal", "not_equal", "subset", "superset",
                  "proper_subset", "proper_superset"}
CalculationOps == {"intersection", "union", "difference", "symmetric_difference"}

\* the two shapes of argument Expression.evaluate is called with
Mapping(m) == [kind |-> "mapping", map |-> m]
ListArg(l) == [kind |-> "list", items |-> l]

\* VARIABLE that looks the name up with variables[token]: KeyError if absent
lookup_strict(variables, name) ==
    IF variables.kind = "mapping" /\ name \in DOMAIN variables.map
    THEN [ok |-> TRUE, val |-> Range(variables.map[name])]
    ELSE [ok |-> FALSE, val |-> {}]

\* VARIABLE that takes the first value of the sequence only
lookup_first(variables, name) ==
    IF variables.kind = "mapping"
    THEN [ok |-> TRUE,
          val |-> IF name \in DOMAIN variables.map /\ variables.map[name] # <<>>
                  THEN {variables.map[name][1]} ELSE {}]
    ELSE [ok |-> FALSE, val |-> {}]

\* _EvalTransformer.VARIABLE: set(self._variables.get(token, set()));
\* a list has no get, the AttributeError is reported as ok = FALSE
Lookup(variables, name) ==
    IF variables.kind = "mapping"
    THEN [ok |-> TRUE,
          val |-> IF name \in DOMAIN variables.map
                  THEN Range(variables.map[name]) ELSE {}]
    ELSE [ok |-> FALSE, val |-> {}]

SetOp(o, a, b) ==
    CASE o = "intersection" -> a \cap b
      [] o = "union" -> a \cup b
      [] o = "difference" -> a \ b
      [] o = "symmetric_difference" -> (a \ b) \cup (b \ a)

\* the comparisons with < and > taken as <= and >=
compare_non_strict(o, a, b) ==
    CASE o = "equal" -> a = b
      [] o = "not_equal" -> a # b
      [] o = "subset" -> a \subseteq b
      [] o = "superset" -> b \subseteq a
      [] o = "proper_subset" -> a \subseteq b
      [] o = "proper_superset" -> b \subseteq a

Compare(o, a, b) ==
    CASE o = "equal" -> a = b
      [] o = "not_equal" -> a # b
      [] o = "subset" -> a \subseteq b
      [] o = "superset" -> b \subseteq a
      [] o = "proper_subset" -> a \subseteq b /\ a # b
      [] o = "proper_superset" -> b \subseteq a /\ a # b

RECURSIVE calculation(_, _)
calculation(tree, variables) ==
    CASE tree.op = "EMPTY" -> [ok |-> TRUE, val |-> {}]
      [] tree.op = "VARIABLE" -> Lookup(variables, tree.name)
      [] OTHER ->
            LET l == calculation(tree.l, variables)
                r == calculation(tree.r, variables)
            IN  IF l.ok /\ r.ok
                THEN [ok |-> TRUE, val |-> SetOp(tree.op, l.val, r.val)]
                ELSE [ok |-> FALSE, val |-> {}]

\* Expression.evaluate: ok = FALSE stands for a raised exception
evaluate(tree, variables) ==
    LET l == calculation(tree.l, variables)
        r == calculation(tree.r, variables)
    IN  IF l.ok /\ r.ok
        THEN [ok |-> TRUE, val |-> Compare(tree.op, l.val, r.val)]
        ELSE [ok |-> FALSE, val |-> FALSE]

\* ---------------------------------------------------------------- grammar
\* an expression text is the sequence of its tokens (WS is ignored)
SetTokens == {"&", "|", "-", "^"}
ComparisonTokens == {"==", "!=", "<=", ">=", "<", ">"}
VarNames == {"a", "b"}
Literals == VarNames \cup {"missing", "empty"}

\* the rule alias of an operator token
Alias(token) ==
    CASE token = "&" -> "intersection"
      [] token = "|" -> "union"
      [] token = "-" -> "difference"
      [] token = "^" -> "symmetric_difference"
      [] token = "==" -> "equal"
      [] token = "!=" -> "not_equal"
      [] token = "<=" -> "subset"
      [] token = ">=" -> "superset"
      [] token = "<" -> "proper_subset"
      [] token = ">" -> "proper_superset"

\* the token at position i, "$END" past the end of the text
At(tokens, i) == IF i \in DOMAIN tokens THEN tokens[i] ELSE "$END"

\* a parse of a part of the text: the tree and the position after it
Parsed(tree, next) == [ok |-> TRUE, tree |-> tree, next |-> next]
Unexpected == [ok |-> FALSE, tree |-> Empty, next |-> 0]

\* ?literal: EMPTY | VARIABLE
literal(token) == IF token = "empty" THEN Empty ELSE Variable(token)

RECURSIVE factor(_, _), calculation_rest(_, _, _)

\* ?calculation: factor | calculation OP factor
parse_calculation(tokens, i) ==
    LET first == factor(tokens, i)
    IN  IF first.ok THEN calculation_rest(tokens, first.tree, first.next)
                    ELSE Unexpected

\* calculation OP factor that takes everything after OP as the right operand
calculation_rest_right(tokens, left, i) ==
    IF At(tokens, i) \in SetTokens
    THEN LET right == parse_calculation(tokens, i + 1)
         IN  IF right.ok
             THEN Parsed(Node(Alias(tokens[i]), left, right.tree), right.next)
             ELSE Unexpected
    ELSE Parsed(left, i)

\* calculation OP factor: the calculation parsed so far is the left operand
\* of the next operator, whichever of the four it is
calculation_rest(tokens, left, i) ==
    IF At(tokens, i) \in SetTokens
    THEN LET right == factor(tokens, i + 1)
         IN  IF right.ok
             THEN calculation_rest(tokens,
                                   Node(Alias(tokens[i]), left, right.tree),
                                   right.next)
             ELSE Unexpected
    ELSE Parsed(left, i)

\* ?factor: literal | "(" calculation ")"
factor(tokens, i) ==
    IF At(tokens, i) \in Literals
    THEN Parsed(literal(tokens[i]), i + 1)
    ELSE IF At(tokens, i) = "("
    THEN LET inner == parse_calculation(tokens, i + 1)
         IN  IF inner.ok /\ At(tokens, inner.next) = ")"
             THEN Parsed(inner.tree, inner.next + 1)
             ELSE Unexpected
    ELSE Unexpected

\* comparison that does not look at what follows the right calculation
comparison_prefix(tokens) ==
    LET left == parse_calculation(tokens, 1)
    IN  IF left.ok /\ At(tokens, left.next) \in ComparisonTokens
        THEN LET right == parse_calculation(tokens, left.next + 1)
             IN  IF right.ok
                 THEN Parsed(Node(Alias(tokens[left.next]), left.tree,
                                  right.tree), right.next)
                 ELSE Unexpected
        ELSE Unexpected

\* ?comparison: calculation OP calculation, up to the end of the text
comparison(tokens) ==
    LET left == parse_calculation(tokens, 1)
    IN  IF left.ok /\ At(tokens, left.next) \in ComparisonTokens
        THEN LET right == parse_calculation(tokens, left.next + 1)
             IN  IF right.ok /\ right.next = Len(tokens) + 1
                 THEN Parsed(Node(Alias(tokens[left.next]), left.tree,
                                  right.tree), right.next)
                 ELSE Unexpected
        ELSE Unexpected

\* _lark.parse(expression): ok = FALSE stands for UnexpectedInput
parse(tokens) == comparison(tokens)

\* "empty == empty", "empty != empty" (the default), "f1 != empty"
ExprTrue == Node("equal", Empty, Empty)
ExprDefault == Node("not_equal", Empty, Empty)
ExprVar == Node("not_equal", Variable(FetchNames[1]), Empty)
Expressions == {ExprTrue, ExprVar}

\* ---------------------------------------------------------------- plugins
Strategies == {"continue", "success_stop", "failure_stop", "None"}

\* a Plugin class as the engine sees it: the lists its _execute can return
\* and the keys it stores in context["extra"]; it can also raise, or run on
\* past the timeout
Plugin(returns, stores) == [returns |-> returns, stores |-> stores]

\* the error strategies a group of the configuration can name
ErrorStrategies == {"skip", "reset", "fetch_reset", "execute_reset"}

\* a Plugin class built from an entry of the configuration that names an
\* error strategy: create_plugin hands the keys it does not know to the
\* plugin as kwds, and the engine reads none of them
GroupPlugin(returns, stores, error_strategy) ==
    [returns |-> returns, stores |-> stores, error_strategy |-> error_strategy]

\* PluginBase.create_plugin: result and exception start as None
create_plugin(plugin, retries, strategy) ==
    [plugin |-> plugin, timeout |-> 1, retries |-> retries, delay |-> 1,
     strategy |-> strategy, result |-> None, exception |-> "None"]

\* assess_strategy that stops after an action with strategy "continue"
assess_strategy_stop(plugin) ==
    CASE plugin.strategy = "continue" -> FALSE
      [] plugin.strategy = "success_stop" -> plugin.exception # "None"
      [] plugin.strategy = "failure_stop" -> plugin.exception = "None"
      [] OTHER -> FALSE

\* PluginBase.assess_strategy: TRUE continues the loop, FALSE breaks it
assess_strategy(plugin) ==
    CASE plugin.strategy = "continue" -> TRUE
      [] plugin.strategy = "success_stop" -> plugin.exception # "None"
      [] plugin.strategy = "failure_stop" -> plugin.exception = "None"
      [] OTHER -> FALSE

\* _get_context
get_context(watcher) ==
    [interval |-> watcher.interval,
     tolerance |-> watcher.tolerance,
     expression |-> watcher.expression,
     fetches |-> watcher.fetches,
     executes |-> watcher.executes,
     attempts |-> 0,
     extra |-> {}]

\* getattr(context, target)
Plugins(ctx, tgt) == IF tgt = "fetches" THEN ctx.fetches ELSE ctx.executes

SetPlugin(ctxs, w, tgt, i, p) ==
    IF tgt = "fetches" THEN [ctxs EXCEPT ![w].fetches[i] = p]
                       ELSE [ctxs EXCEPT ![w].executes[i] = p]

\* plugin.result or []
OrEmpty(result) == IF result = None THEN <<>> ELSE result.list

\* the results the evaluation reads: plugin.result or [] of every fetch
fetch_results(ctx) == [i \in DOMAIN ctx.fetches |-> OrEmpty(ctx.fetches[i].result)]

\* _evaluate_expression that takes an exception of evaluate as True
evaluate_expression_true(ctx) ==
    LET variables == ListArg(fetch_results(ctx))
        result == evaluate(ctx.expression, variables)
    IN  IF result.ok THEN result.val ELSE TRUE

\* _evaluate_expression: the variables are a list of the fetch results;
\* an exception of evaluate gives False
evaluate_expression(ctx) ==
    LET variables == ListArg(fetch_results(ctx))
        result == evaluate(ctx.expression, variables)
    IN  IF result.ok THEN result.val ELSE FALSE

\* -------------------------------------------------------------- scheduler
Max(a, b) == IF a >= b THEN a ELSE b

\* sched orders events by (time, priority, sequence): earliest time, then
\* earliest entered
NextEvent(q) ==
    CHOOSE i \in DOMAIN q :
        \A j \in DOMAIN q :
            q[i].time < q[j].time \/ (q[i].time = q[j].time /\ i <= j)

Remove(q, i) == SubSeq(q, 1, i - 1) \o SubSeq(q, i + 1, Len(q))

\* d units of time pass
Elapse(q, d) == [i \in DOMAIN q |-> [q[i] EXCEPT !.time = @ - d]]

\* Enter that makes the event due at once
EnterNow(q, delay, w) == Append(q, [time |-> 0, w |-> w])

\* scheduler.enter(delay, 1, _watcher_task, (scheduler, context))
Enter(q, delay, w) == Append(q, [time |-> delay, w |-> w])

\* history of a tick: attempts when the expression was evaluated, the fetch
\* results the evaluation read, its result, the calls made so far, and the
\* lists ("fetches", "executes") in which a call has ended in a failure
NoTick == [before |-> 0, evaluated |-> FALSE, fetched |-> <<>>,
          result |-> FALSE, log |-> <<>>, failed |-> {}]

\* no Expression is worked on outside the watchers
NoExpr == [stage |-> "none"]

\* ------------------------------------------------------------------- init
\* a Watcher of the configuration, with its actions already built by
\* create_plugin
Watcher(interval, tolerance, expression, plugin, retries, nf, ne) ==
    [interval |-> interval,
     tolerance |-> tolerance,
     expression |-> expression,
     fetches |-> [i \in 1..nf |-> create_plugin(plugin, retries, "continue")],
     executes |-> [i \in 1..ne |-> create_plugin(plugin, retries, "continue")]]

\* start_watchers up to scheduler.run(): every watcher initialised by
\* _init_watcher and entered with delay 0, in the order of the configuration
start_watchers(watchers) ==
    /\ context = [w \in DOMAIN watchers |-> get_context(watchers[w])]
    /\ queue = [w \in DOMAIN watchers |-> [time |-> 0, w |-> w]]
    /\ pc = "run"
    /\ cur = 0
    /\ target = "fetches"
    /\ idx = 1
    /\ tries = 0
    /\ done = FALSE
    /\ workq = <<>>
    /\ running = <<>>
    /\ tick = NoTick
    /\ streak = [w \in DOMAIN watchers |-> 0]
    /\ expr = NoExpr

\* a Watcher whose actions all have the given strategy
ChainWatcher(interval, tolerance, expression, plugin, retries, strategy, nf, ne) ==
    [interval |-> interval,
     tolerance |-> tolerance,
     expression |-> expression,
     fetches |-> [i \in 1..nf |-> create_plugin(plugin, retries, strategy)],
     executes |-> [i \in 1..ne |-> create_plugin(plugin, retries, strategy)]]

\* one watcher, every tolerance, expression and retry count
Init ==
    \E t \in 0..MaxTolerance, e \in Expressions, r \in 0..MaxRetries :
        start_watchers(<<Watcher(1, t, e, Plugin(Results, {}), r,
                                 NumFetches, NumExecutes)>>)

\* ------------------------------------------------------- scheduler thread
CurPlugins == Plugins(context[cur], target)

Logged(entry) == tick' = [tick EXCEPT !.log = Append(@, entry)]

\* a tick that starts with the executes
first_target_executes == "executes"

\* _watcher_task: the list of its first _execute_plugins call
first_target == "fetches"

\* RunEvent on a scheduler that does not wait for the running tick
RunEventAnytime ==
    /\ queue # <<>>
    /\ LET i == NextEvent(queue)
       IN  /\ queue' = Elapse(Remove(queue, i), Max(queue[i].time, 0))
           /\ cur' = queue[i].w
    /\ pc' = "plugins"
    /\ target' = first_target
    /\ idx' = 1
    /\ tick' = NoTick
    /\ UNCHANGED <<context, tries, done, workq, running, streak, expr>>

\* scheduler.run(): pop the earliest event, sleep until it is due and call
\* _watcher_task, which logs and enters _execute_plugins(context, "fetches")
RunEvent ==
    /\ pc = "run"
    /\ queue # <<>>
    /\ LET i == NextEvent(queue)
       IN  /\ queue' = Elapse(Remove(queue, i), Max(queue[i].time, 0))
           /\ cur' = queue[i].w
    /\ pc' = "plugins"
    /\ target' = first_target
    /\ idx' = 1
    /\ tick' = NoTick
    /\ UNCHANGED <<context, tries, done, workq, running, streak, expr>>

\* _execute_plugins: plugin.execute(plugin_context), that is SimpleRetry
\* calling Timeout, which submits PluginBase.execute to _executor and waits
Execute ==
    /\ pc = "plugins"
    /\ idx <= Len(CurPlugins)
    /\ Len(workq) < MaxPending
    /\ workq' = Append(workq, [w |-> cur, target |-> target, idx |-> idx,
                               live |-> TRUE])
    /\ tries' = 0
    /\ done' = FALSE
    /\ pc' = "wait"
    /\ Logged(<<target, "call">>)
    /\ UNCHANGED <<context, queue, cur, target, idx, running, streak, expr>>

\* the waiting thread gives a work item up: the call itself goes on
Abandon(items) == [i \in DOMAIN items |-> [items[i] EXCEPT !.live = FALSE]]

\* how the call plugin.execute(plugin_context) that returns now has ended:
\* the wait expired, or PluginBase.execute recorded an exception or a result
Outcome ==
    IF ~done THEN "timeout"
    ELSE IF CurPlugins[idx].exception # "None" THEN "error"
    ELSE "success"

\* _execute_plugins after plugin.execute returned: assess_strategy decides
\* between the next plugin and break
Assess ==
    /\ idx' = IF assess_strategy(CurPlugins[idx]) THEN idx + 1
                                                  ELSE Len(CurPlugins) + 1
    /\ pc' = "plugins"
    /\ tick' = [tick EXCEPT !.log = Append(@, <<target, "return">>),
                            !.failed = IF Outcome = "success" THEN @
                                       ELSE @ \cup {target}]

\* Returned that lets the exception of the action end the tick
ReturnedOrAbort ==
    /\ pc = "wait"
    /\ done
    /\ IF CurPlugins[idx].exception # "None"
       THEN /\ pc' = "run"
            /\ cur' = 0
            /\ tick' = NoTick
            /\ UNCHANGED idx
       ELSE /\ Assess
            /\ UNCHANGED cur
    /\ UNCHANGED <<context, queue, target, tries, done, workq, running,
                   streak, expr>>

\* Timeout: the future completed within the timeout; SimpleRetry returns
Returned ==
    /\ pc = "wait"
    /\ done
    /\ Assess
    /\ UNCHANGED <<context, queue, cur, target, tries, done, workq, running,
                   streak, expr>>

\* Timeout: the wait expired; SimpleRetry sleeps delay and calls again
TimeoutRetry ==
    /\ pc = "wait"
    /\ ~done
    /\ tries < CurPlugins[idx].retries
    /\ Len(workq) < MaxPending
    /\ workq' = Append(Abandon(workq), [w |-> cur, target |-> target,
                                        idx |-> idx, live |-> TRUE])
    /\ running' = Abandon(running)
    /\ tries' = tries + 1
    /\ queue' = Elapse(queue, CurPlugins[idx].timeout + CurPlugins[idx].delay)
    /\ UNCHANGED <<context, pc, cur, target, idx, done, tick, streak, expr>>

\* TimeoutGiveUp by a wait that has no timeout: it ends when the call does
TimeoutGiveUpBlocking ==
    /\ pc = "wait"
    /\ done
    /\ tries >= CurPlugins[idx].retries
    /\ Assess
    /\ UNCHANGED <<context, queue, cur, target, tries, done, workq, running,
                   streak, expr>>

\* Timeout: the wait expired on the last attempt; SimpleRetry gives up and
\* plugin.execute returns to _execute_plugins
TimeoutGiveUp ==
    /\ pc = "wait"
    /\ ~done
    /\ tries >= CurPlugins[idx].retries
    /\ workq' = Abandon(workq)
    /\ running' = Abandon(running)
    /\ queue' = Elapse(queue, CurPlugins[idx].timeout)
    /\ Assess
    /\ UNCHANGED <<context, cur, target, tries, done, streak, expr>>

\* _execute_plugins(context, "fetches"): the loop is over (exhausted or
\* break); _watcher_task goes on to _evaluate_expression
FetchesFinished ==
    /\ pc = "plugins"
    /\ target = "fetches"
    /\ idx > Len(CurPlugins)
    /\ pc' = "evaluate"
    /\ UNCHANGED <<context, queue, cur, target, idx, tries, done, workq,
                   running, tick, streak, expr>>

\* ExecutesFinished without context.attempts = 0
ExecutesFinishedKeep ==
    /\ pc = "plugins"
    /\ target = "executes"
    /\ idx > Len(CurPlugins)
    /\ pc' = "finish"
    /\ UNCHANGED <<context, queue, cur, target, idx, tries, done, workq,
                   running, tick, streak, expr>>

\* ExecutesFinished that gives the watcher a new, empty extra
ExecutesFinishedFresh ==
    /\ pc = "plugins"
    /\ target = "executes"
    /\ idx > Len(CurPlugins)
    /\ pc' = "finish"
    /\ context' = [context EXCEPT ![cur].attempts = 0, ![cur].extra = {}]
    /\ UNCHANGED <<queue, cur, target, idx, tries, done, workq, running, tick,
                   streak, expr>>

\* _execute_plugins(context, "executes"): the loop is over; _watcher_task
\* sets context.attempts = 0
ExecutesFinished ==
    /\ pc = "plugins"
    /\ target = "executes"
    /\ idx > Len(CurPlugins)
    /\ pc' = "finish"
    /\ context' = [context EXCEPT ![cur].attempts = 0]
    /\ UNCHANGED <<queue, cur, target, idx, tries, done, workq, running, tick,
                   streak, expr>>

Min(a, b) == IF a <= b THEN a ELSE b

\* decide with the tolerance test off by one
decide_le(result, attempts, tolerance) ==
    IF ~result THEN "reset"
    ELSE IF attempts <= tolerance THEN "accumulate" ELSE "act"

\* decide without the tolerance test
decide_eager(result, attempts, tolerance) ==
    IF ~result THEN "reset" ELSE "act"

\* decide with the test of the result inverted
decide_inverted(result, attempts, tolerance) ==
    IF result THEN "reset"
    ELSE IF attempts < tolerance THEN "accumulate" ELSE "act"

\* _watcher_task: the branch taken on the result of _evaluate_expression
decide(result, attempts, tolerance) ==
    IF ~result THEN "reset"
    ELSE IF attempts < tolerance THEN "accumulate" ELSE "act"

\* _watcher_task: _evaluate_expression and the three branches on its result
Evaluate ==
    /\ pc = "evaluate"
    /\ LET ctx == context[cur]
           result == evaluate_expression(ctx)
           branch == decide(result, ctx.attempts, ctx.tolerance)
       IN  /\ tick' = [tick EXCEPT !.before = ctx.attempts,
                                   !.evaluated = TRUE,
                                   !.fetched = fetch_results(ctx),
                                   !.result = result,
                                   !.log = Append(@, <<"expression", "evaluate">>)]
           /\ streak' = [streak EXCEPT ![cur] =
                            IF result THEN Min(@ + 1, MaxTolerance + 2) ELSE 0]
           /\ CASE branch = "reset" ->
                     /\ context' = [context EXCEPT ![cur].attempts = 0]
                     /\ pc' = "finish"
                     /\ UNCHANGED <<target, idx>>
                [] branch = "accumulate" ->
                     /\ context' = [context EXCEPT ![cur].attempts = @ + 1]
                     /\ pc' = "finish"
                     /\ UNCHANGED <<target, idx>>
                [] branch = "act" ->
                     /\ pc' = "plugins"
                     /\ target' = "executes"
                     /\ idx' = 1
                     /\ UNCHANGED context
    /\ UNCHANGED <<queue, cur, tries, done, workq, running, expr>>

\* Finish that does not enter the watcher into the queue again
FinishOnce ==
    /\ pc = "finish"
    /\ pc' = "run"
    /\ cur' = 0
    /\ tick' = NoTick
    /\ streak' = [streak EXCEPT ![cur] = IF target = "executes" THEN 0 ELSE @]
    /\ UNCHANGED <<context, queue, target, idx, tries, done, workq, running,
                   expr>>

\* _watcher_task: scheduler.enter(context.interval, ...) and return to
\* scheduler.run()
Finish ==
    /\ pc = "finish"
    /\ queue' = Enter(queue, context[cur].interval, cur)
    /\ pc' = "run"
    /\ cur' = 0
    /\ tick' = NoTick
    /\ streak' = [streak EXCEPT ![cur] = IF target = "executes" THEN 0 ELSE @]
    /\ UNCHANGED <<context, target, idx, tries, done, workq, running, expr>>

\* WorkerStart of an executor that does not wait for its worker: the call
\* starts at once and the call that was running is dropped
WorkerStartAtOnce ==
    /\ workq # <<>>
    /\ LET item == Head(workq)
           plugin == Plugins(context[item.w], item.target)[item.idx]
       IN  /\ context' = SetPlugin(context, item.w, item.target, item.idx,
                             [plugin EXCEPT !.result = None,
                                            !.exception = "None"])
           /\ running' = <<item>>
    /\ workq' = Tail(workq)
    /\ UNCHANGED <<queue, pc, cur, target, idx, tries, done, tick, streak, expr>>

\* ---------------------------------------------------------- worker thread
\* the worker takes the next work item and enters PluginBase.execute:
\* self.result = self.exception = None
WorkerStart ==
    /\ running = <<>>
    /\ workq # <<>>
    /\ LET item == Head(workq)
           plugin == Plugins(context[item.w], item.target)[item.idx]
       IN  /\ context' = SetPlugin(context, item.w, item.target, item.idx,
                             [plugin EXCEPT !.result = None,
                                            !.exception = "None"])
           /\ running' = <<item>>
    /\ workq' = Tail(workq)
    /\ UNCHANGED <<queue, pc, cur, target, idx, tries, done, tick, streak, expr>>

\* PluginBase.execute: self.result = self._execute(context); _execute has
\* stored its keys in context["extra"]
WorkerReturn(r) ==
    /\ running # <<>>
    /\ r \in Plugins(context[running[1].w], running[1].target)[running[1].idx].plugin.returns
    /\ LET item == running[1]
           plugin == Plugins(context[item.w], item.target)[item.idx]
           stored == [context EXCEPT ![item.w].extra = @ \cup plugin.plugin.stores]
       IN  /\ context' = SetPlugin(stored, item.w, item.target, item.idx,
                             [plugin EXCEPT !.result = List(r)])
           /\ done' = IF item.live THEN TRUE ELSE done
    /\ running' = <<>>
    /\ UNCHANGED <<queue, pc, cur, target, idx, tries, workq, tick, streak, expr>>

\* PluginBase.execute: except Exception as ex: self.exception = ex
WorkerRaise ==
    /\ running # <<>>
    /\ LET item == running[1]
           plugin == Plugins(context[item.w], item.target)[item.idx]
       IN  /\ context' = SetPlugin(context, item.w, item.target, item.idx,
                             [plugin EXCEPT !.exception = "Exception"])
           /\ done' = IF item.live THEN TRUE ELSE done
    /\ running' = <<>>
    /\ UNCHANGED <<queue, pc, cur, target, idx, tries, workq, tick, streak, expr>>

Next ==
    \/ RunEvent
    \/ Execute
    \/ Returned
    \/ TimeoutRetry
    \/ TimeoutGiveUp
    \/ FetchesFinished
    \/ ExecutesFinished
    \/ Evaluate
    \/ Finish
    \/ WorkerStart
    \/ \E r \in Results : WorkerReturn(r)
    \/ WorkerRaise

Spec == Init /\ [][Next]_vars

\* several watchers on the one scheduler, each with one fetch and one
\* execute action and an expression that holds
InitMulti ==
    start_watchers([w \in 1..NumWatchers |->
        Watcher(((w - 1) % MaxInterval) + 1, 1, ExprTrue,
                Plugin({<<>>}, {}), 1, 1, 1)])

SpecMulti == InitMulti /\ [][Next]_vars

\* one watcher with tolerance 1, an expression that holds and one retry,
\* with every strategy and every error strategy; its actions return one
\* value, raise, or run on past the timeout
InitChain ==
    \E s \in Strategies, es \in ErrorStrategies :
        start_watchers(<<ChainWatcher(1, 1, ExprTrue,
                                      GroupPlugin({<<"a">>}, {}, es), 1, s,
                                      NumFetches, NumExecutes)>>)

SpecChain == InitChain /\ [][Next]_vars

\* ------------------------------------------------------------------ progress
\* the steps of the scheduler thread, and those of the worker thread
SchedulerNext ==
    \/ RunEvent
    \/ Execute
    \/ Returned
    \/ TimeoutRetry
    \/ TimeoutGiveUp
    \/ FetchesFinished
    \/ ExecutesFinished
    \/ Evaluate
    \/ Finish

WorkerNext ==
    \/ WorkerStart
    \/ \E r \in Results : WorkerReturn(r)
    \/ WorkerRaise

\* one watcher with tolerance 0, one fetch and one execute action
InitLive ==
    \E r \in 0..MaxRetries :
        start_watchers(<<Watcher(1, 0, ExprTrue, Plugin({<<>>}, {}), r, 1, 1)>>)

\* the scheduler thread goes on whenever it can: a wait ends with the call
\* or with the timeout; a call on the worker thread may never return
SpecTimeout == InitLive /\ [][Next]_vars /\ WF_vars(SchedulerNext)

\* both threads go on whenever they can: every call ends, in time or late
SpecFair ==
    InitLive /\ [][Next]_vars /\ WF_vars(SchedulerNext) /\ WF_vars(WorkerNext)

\* --------------------------------------------------------------------- extra
\* a Watcher whose fetch actions each store a key of their own in
\* context["extra"] and whose execute actions store the key "k"
ExtraWatcher(interval, tolerance, expression, retries, nf, ne) ==
    [interval |-> interval,
     tolerance |-> tolerance,
     expression |-> expression,
     fetches |-> [i \in 1..nf |->
         create_plugin(Plugin({<<>>}, {FetchNames[i]}), retries, "continue")],
     executes |-> [i \in 1..ne |->
         create_plugin(Plugin({<<>>}, ExtraKeys), retries, "continue")]]

InitExtra ==
    start_watchers(<<ExtraWatcher(1, 0, ExprTrue, 1, NumFetches, NumExecutes)>>)

SpecExtra == InitExtra /\ [][Next]_vars

\* ------------------------------------------------------------- shared worker
\* several watchers of one configuration, all of whose actions are guarded
\* by the one _executor
InitShared ==
    \E r \in 0..MaxRetries :
        start_watchers([w \in 1..NumWatchers |->
            Watcher(1, 0, ExprTrue, Plugin({<<>>}, {}), r, 1, 1)])

SpecShared == InitShared /\ [][Next]_vars

\* ------------------------------------------------------------------ fairness
\* watchers of the longest interval and among them one watcher of any
\* interval; the scheduler thread and the worker thread both keep running,
\* so every call handed to the worker returns
InitIntervals ==
    \E one \in 1..NumWatchers, interval \in 1..MaxInterval :
        start_watchers([w \in 1..NumWatchers |->
            Watcher(IF w = one THEN interval ELSE MaxInterval, 0, ExprTrue,
                    Plugin({<<>>}, {}), 1, 1, 1)])

SpecIntervals ==
    InitIntervals /\ [][Next]_vars /\ WF_vars(SchedulerNext) /\ WF_vars(WorkerNext)

\* -------------------------------------------------------------- execute pass
\* a watcher with tolerance 1 and more than one execute action, its lists
\* of any strategy, so that an execute pass can stop before its last action
InitPass ==
    \E s \in Strategies :
        start_watchers(<<ChainWatcher(1, 1, ExprTrue, Plugin({<<>>}, {}), 1, s,
                                      1, NumExecutes + 1)>>)

SpecPass == InitPass /\ [][Next]_vars

\* -------------------------------------------------------------------- faults
\* an exception escapes _watcher_task: nothing in it or in scheduler.run()
\* catches it, so scheduler.run() and start_watchers end with it; the events
\* of the queue are left where they are
Fault ==
    /\ pc \in {"plugins", "evaluate", "finish"}
    /\ pc' = "crashed"
    /\ UNCHANGED <<context, queue, cur, target, idx, tries, done, workq,
                   running, tick, streak, expr>>

\* several watchers with tolerance 0, one fetch and one execute action each
InitFault ==
    start_watchers([w \in 1..NumWatchers |->
        Watcher(1, 0, ExprTrue, Plugin({<<>>}, {}), 1, 1, 1)])

NextFault ==
    \/ Next
    \/ Fault

SpecFault == InitFault /\ [][NextFault]_vars

\* ------------------------------------------------- an Expression on its own
\* the values of a variable: sequences of at most MaxLen values
ExprValues == {1, 2}
ValueSeqs == UNION {[1..n -> ExprValues] : n \in 0..MaxLen}

\* the variables handed to evaluate: a mapping of some of the names
Mappings == UNION {[D -> ValueSeqs] : D \in SUBSET VarNames}

\* the texts: a comparison of two literals, and a comparison with empty of
\* a chain of two set operators, bare or with the second in parentheses
Comparisons ==
    {<<x, c, y>> : x \in Literals, c \in ComparisonTokens, y \in Literals}
Chains ==
    {<<x, o1, y, o2, z, "==", "empty">> :
        x \in VarNames, o1 \in SetTokens, y \in VarNames, o2 \in SetTokens,
        z \in VarNames}
Grouped ==
    {<<x, o1, "(", y, o2, z, ")", "==", "empty">> :
        x \in VarNames, o1 \in SetTokens, y \in VarNames, o2 \in SetTokens,
        z \in VarNames}
Texts == Comparisons \cup Chains \cup Grouped

\* every text of at most MaxTokens tokens, one token of each kind
TokenKinds == {"a", "&", "==", "(", ")"}
TokenTexts == UNION {[1..n -> TokenKinds] : n \in 0..MaxTokens}

\* what Expression is given: a text of Texts with any variables, or any
\* text of tokens with no variables
Inputs == (Texts \X Mappings) \cup (TokenTexts \X {<<>>})

\* no watcher is configured; an expression text and the variables are given
InitExpr ==
    /\ context = <<>>
    /\ queue = <<>>
    /\ pc = "run"
    /\ cur = 0
    /\ target = "fetches"
    /\ idx = 1
    /\ tries = 0
    /\ done = FALSE
    /\ workq = <<>>
    /\ running = <<>>
    /\ tick = NoTick
    /\ streak = <<>>
    /\ \E input \in Inputs :
           expr = [stage |-> "text", text |-> input[1], variables |-> input[2],
                   tree |-> Empty, result |-> [ok |-> FALSE, val |-> FALSE]]

\* Expression.__init__: self._parse_tree = _lark.parse(self.expression)
Compile ==
    /\ expr.stage = "text"
    /\ LET parsed == parse(expr.text)
       IN  expr' = IF parsed.ok
                   THEN [expr EXCEPT !.stage = "compiled", !.tree = parsed.tree]
                   ELSE [expr EXCEPT !.stage = "rejected"]
    /\ UNCHANGED <<context, queue, pc, cur, target, idx, tries, done, workq,
                   running, tick, streak>>

\* Expression.evaluate(variables) with a mapping
EvaluateExpression ==
    /\ expr.stage = "compiled"
    /\ expr' = [expr EXCEPT !.stage = "evaluated",
                            !.result = evaluate(expr.tree,
                                                Mapping(expr.variables))]
    /\ UNCHANGED <<context, queue, pc, cur, target, idx, tries, done, workq,
                   running, tick, streak>>

NextExpr ==
    \/ Compile
    \/ EvaluateExpression

SpecExpr == InitExpr /\ [][NextExpr]_vars

\* --------------------------------------------------- start_watchers by steps
\* what a watcher of the configuration can name: an expression that
\* compiles or one that does not, a plugin that is found or one that is not
ConfigTexts == {<<"empty", "==", "empty">>, <<"a", "&">>}
PluginIds == {"echo", "nosuch"}

\* super().create_plugin finds the plugin; if not it raises
Resolvable(id) == id = "echo"

\* start_watchers is entered: the scheduler is created and empty
InitStart ==
    /\ context = <<>>
    /\ queue = <<>>
    /\ pc = "init"
    /\ cur = 0
    /\ target = "fetches"
    /\ idx = 1
    /\ tries = 0
    /\ done = FALSE
    /\ workq = <<>>
    /\ running = <<>>
    /\ tick = NoTick
    /\ streak = <<>>
    /\ expr = NoExpr

\* RunScheduler that runs the watchers entered before a failed one
RunSchedulerAnyway ==
    /\ pc \in {"init", "failed"}
    /\ pc = "init" => Len(context) = NumWatchers
    /\ pc' = "run"
    /\ UNCHANGED <<context, queue, cur, target, idx, tries, done, workq,
                   running, tick, streak, expr>>

\* _init_watcher for the next watcher of the configuration: _get_context
\* compiles the expression and creates the plugins; an exception is logged
\* and raised again, and start_watchers ends with it; otherwise the watcher
\* is entered with delay 0
InitWatcher ==
    /\ pc = "init"
    /\ Len(context) < NumWatchers
    /\ \E text \in ConfigTexts, id \in PluginIds :
           LET parsed == parse(text)
               watcher == Watcher(1, 0, parsed.tree, Plugin({<<>>}, {}), 1, 1, 1)
           IN  IF parsed.ok /\ Resolvable(id)
               THEN /\ context' = Append(context, get_context(watcher))
                    /\ queue' = Enter(queue, 0, Len(context) + 1)
                    /\ streak' = Append(streak, 0)
                    /\ pc' = "init"
               ELSE /\ pc' = "failed"
                    /\ UNCHANGED <<context, queue, streak>>
    /\ UNCHANGED <<cur, target, idx, tries, done, workq, running, tick, expr>>

\* start_watchers: every watcher is initialised; scheduler.run()
RunScheduler ==
    /\ pc = "init"
    /\ Len(context) = NumWatchers
    /\ pc' = "run"
    /\ UNCHANGED <<context, queue, cur, target, idx, tries, done, workq,
                   running, tick, streak, expr>>

NextInit ==
    \/ InitWatcher
    \/ RunScheduler
    \/ Next

SpecInit == InitStart /\ [][NextInit]_vars

TypeOK ==
    /\ pc \in {"init", "failed", "run", "plugins", "wait", "evaluate", "finish",
             "crashed"}
    /\ cur \in {0} \cup DOMAIN context
    /\ Len(workq) <= MaxPending
    /\ Len(running) <= 1

\* ----------------------------------------------------------------- claims
\* the calls plugin.execute(plugin_context) the running tick made so far
Called(tgt) == {i \in DOMAIN tick.log : tick.log[i] = <<tgt, "call">>}

\* C1: in every reachable state the attempts counter of every watcher is at
\* least 0 and at most the watcher's tolerance.
C1_AttemptsWithinTolerance ==
    \A w \in DOMAIN context :
        context[w].attempts \in 0..context[w].tolerance

\* a watcher has counted up to its tolerance, and the tolerance is not 0
C1_Witness ==
    /\ pc = "finish"
    /\ context[cur].tolerance = MaxTolerance
    /\ context[cur].attempts = MaxTolerance
    /\ MaxTolerance > 0

\* C2: an execute action is invoked in a tick only if the expression was
\* evaluated true in that tick with attempts at the tolerance, that is after
\* true evaluations in this and the tolerance ticks before it, with no false
\* evaluation and no execute pass in between.
C2_ExecuteOnlyPastTolerance ==
    Called("executes") # {} =>
        /\ tick.evaluated
        /\ tick.result
        /\ tick.before >= context[cur].tolerance
        /\ streak[cur] >= context[cur].tolerance + 1

\* an execute action was invoked by a watcher with a tolerance above 0
C2_Witness ==
    /\ Called("executes") # {}
    /\ context[cur].tolerance = MaxTolerance
    /\ MaxTolerance > 0

\* C3: a tick whose expression is true with attempts at the tolerance has,
\* when it ends, invoked every execute action and left attempts at 0.
C3_ActThenReset ==
    (pc = "finish" /\ tick.result /\ tick.before >= context[cur].tolerance) =>
        /\ Cardinality(Called("executes")) = Len(context[cur].executes)
        /\ context[cur].attempts = 0

\* such a tick ends, and attempts was above 0 when it began
C3_Witness ==
    /\ pc = "finish"
    /\ tick.result
    /\ tick.before >= context[cur].tolerance
    /\ tick.before > 0

\* C4: a tick whose expression is true with attempts below the tolerance
\* ends with attempts one higher and without an execute action invoked.
C4_AccumulateOnly ==
    (tick.evaluated /\ tick.result /\ tick.before < context[cur].tolerance) =>
        /\ pc = "finish"
        /\ context[cur].attempts = tick.before + 1
        /\ Called("executes") = {}

\* the second such tick in a row
C4_Witness ==
    /\ tick.evaluated
    /\ tick.result
    /\ tick.before < context[cur].tolerance
    /\ tick.before = 1
    /\ context[cur].attempts = 2

C6_FiresOnTolerancePlusOne ==
    tick.evaluated =>
        /\ streak[cur] <= context[cur].tolerance + 1
        /\ (target = "executes") <=>
               (tick.result /\ streak[cur] = context[cur].tolerance + 1)
        /\ (pc = "finish" /\ target = "executes") => context[cur].attempts = 0

\* tolerance 2: the third true tick in a row has run the executes and ends
\* with attempts 0
C6_Witness ==
    /\ pc = "finish"
    /\ context[cur].tolerance = 2
    /\ streak[cur] = 3
    /\ Cardinality(Called("executes")) = Len(context[cur].executes)
    /\ context[cur].attempts = 0

\* a work item the scheduler thread is waiting for
Awaited == {i \in DOMAIN workq : workq[i].live}
               \cup {i \in DOMAIN running : running[i].live}

NamedResults(fetched) ==
    [n \in {FetchNames[i] : i \in DOMAIN fetched} |->
        fetched[CHOOSE i \in DOMAIN fetched : FetchNames[i] = n]]

\* C8: the evaluation of a tick gives the result of the expression with
\* every variable resolved to the values its fetch produced in this tick, so
\* "f1 != empty" is true when fetch f1 returned a value.
C8_VariablesResolve ==
    tick.evaluated =>
        tick.result = evaluate(context[cur].expression,
                               Mapping(NamedResults(tick.fetched))).val

\* a watcher's tick is in progress: its event was popped and not entered again
InTick(w) == \A i \in DOMAIN queue : queue[i].w # w

\* C9: at most one watcher's tick is in progress at any time, and it is the
\* one the scheduler thread is running.
C9_OneTickAtATime ==
    /\ Cardinality({w \in DOMAIN context : InTick(w)}) <= 1
    /\ \A w \in DOMAIN context : InTick(w) <=> (pc # "run" /\ cur = w)

\* a tick is in progress while the tick of another watcher is overdue
C9_Witness ==
    /\ pc # "run"
    /\ \E i \in DOMAIN queue : queue[i].time < 0

\* the step that ends a tick, and the step that starts one
FinishStep == pc = "finish" /\ pc' = "run"
RunStep == pc = "run" /\ pc' # "run"

\* C11: the step that ends a watcher's tick enters exactly one event for it,
\* due interval after that step; a watcher never has two events; an event
\* only gets older while it waits; and a tick starts only when its event is
\* due, so not before interval has passed since the previous tick ended.
C11_FixedDelay ==
    [][/\ (FinishStep =>
             /\ InTick(cur)
             /\ queue' = Append(queue, [time |-> context[cur].interval,
                                        w |-> cur]))
       /\ (RunStep =>
             \E i \in DOMAIN queue, d \in 0..MaxInterval :
                 /\ queue[i].w = cur'
                 /\ d >= queue[i].time
                 /\ queue' = Elapse(Remove(queue, i), d))
       /\ \A i \in DOMAIN queue, j \in DOMAIN queue' :
             queue[i].w = queue'[j].w => queue'[j].time <= queue[i].time
       /\ \A i, j \in DOMAIN queue' :
             queue'[i].w = queue'[j].w => i = j]_vars

\* a tick that took time has just ended: its watcher's next event is due in
\* interval from now, while another watcher's event is overdue
C11_Witness ==
    /\ pc = "run"
    /\ queue # <<>>
    /\ queue[Len(queue)].time = context[queue[Len(queue)].w].interval
    /\ \E j \in DOMAIN queue : queue[j].time < 0

\* the evaluation of the running tick raised an exception
Raised ==
    /\ tick.evaluated
    /\ ~evaluate(context[cur].expression, ListArg(tick.fetched)).ok

\* C12: a tick whose evaluation raised an exception has the result false,
\* attempts 0 and no execute action called, and its next step on the
\* scheduler thread enters the watcher's next event.
C12_RaiseIsFalse ==
    [][Raised =>
          /\ ~tick.result
          /\ pc = "finish"
          /\ context[cur].attempts = 0
          /\ Called("executes") = {}
          /\ (pc' # pc =>
                 /\ pc' = "run"
                 /\ queue' = Append(queue, [time |-> context[cur].interval,
                                            w |-> cur]))]_vars

\* the evaluation of "f1 != empty" raised and the tick is at its end
C12_Witness ==
    /\ Raised
    /\ pc = "finish"
    /\ context[cur].expression = ExprVar

\* the step in which the call plugin.execute(plugin_context) returns to the
\* loop of _execute_plugins, and the step in which the loop makes a call
ReturnStep == pc = "wait" /\ pc' = "plugins"
CallStep == pc = "plugins" /\ pc' = "wait"

\* the loop goes on to the next action; the loop stops
GoesOn == idx' = idx + 1
Stops == idx' = Len(CurPlugins) + 1

\* C13: in a list with strategy success_stop the actions are called in
\* order, the k-th call being of action k; after an action that failed
\* (error or timeout) the loop goes on to the next action, and after the
\* first action that ended without error it stops.
C13_SuccessStop ==
    [][/\ (CallStep /\ CurPlugins[idx].strategy = "success_stop") =>
              Cardinality(Called(target)) = idx - 1
       /\ (ReturnStep /\ CurPlugins[idx].strategy = "success_stop") =>
              IF Outcome = "success" THEN Stops ELSE GoesOn]_vars

\* C14: in a list with strategy failure_stop the actions are called in
\* order, the k-th call being of action k; after an action that ended
\* without error the loop goes on to the next action, and after the first
\* action that failed (error or timeout) it stops.
C14_FailureStop ==
    [][/\ (CallStep /\ CurPlugins[idx].strategy = "failure_stop") =>
              Cardinality(Called(target)) = idx - 1
       /\ (ReturnStep /\ CurPlugins[idx].strategy = "failure_stop") =>
              IF Outcome = "success" THEN GoesOn ELSE Stops]_vars

\* every action of the list the tick is at has strategy continue
AllContinue ==
    /\ cur # 0
    /\ \A i \in DOMAIN CurPlugins : CurPlugins[i].strategy = "continue"

\* C15: in a list with strategy continue the k-th call of a pass is of
\* action k, and a pass that is over has called every action of the list
\* once, whatever the outcomes.
C15_ContinueCallsAll ==
    AllContinue =>
        /\ pc = "wait" => Cardinality(Called(target)) = idx
        /\ pc = "plugins" => Cardinality(Called(target)) = idx - 1
        /\ pc \in {"evaluate", "finish"} =>
               Cardinality(Called("fetches")) = Len(context[cur].fetches)
        /\ (pc = "finish" /\ target = "executes") =>
               Cardinality(Called("executes")) = Len(context[cur].executes)

\* a tick with strategy continue ends after calls failed in both lists
C15_Witness ==
    /\ AllContinue
    /\ pc = "finish"
    /\ tick.failed = {"fetches", "executes"}
    /\ Cardinality(Called("fetches")) = Len(context[cur].fetches)
    /\ Cardinality(Called("executes")) = Len(context[cur].executes)

\* C16 to C19 read the entries of a list as the groups of the configuration
\* (_get_context builds one entry from each element of watcher.fetches and
\* watcher.executes), an entry's strategy as its chain strategy and the
\* error strategy it was configured with as its error strategy.

\* the error strategy of the entry the loop is at, and those of a list
ErrorStrategy == CurPlugins[idx].plugin.error_strategy
ListErrorStrategies(tgt) ==
    {Plugins(context[cur], tgt)[i].plugin.error_strategy :
        i \in DOMAIN Plugins(context[cur], tgt)}

\* C16: after an entry that ended without error the loop goes on to the
\* next entry of the list, whatever the entry's strategy.
C16_NextGroupAfterSuccess ==
    [][(ReturnStep /\ Outcome = "success") => GoesOn]_vars

\* C17: once a call of an entry with error strategy reset has failed, the
\* tick makes no further call, and attempts is 0 when the tick ends.
C17_ResetAbandons ==
    (cur # 0 /\ \E tgt \in tick.failed : "reset" \in ListErrorStrategies(tgt)) =>
        /\ pc # "wait"
        /\ pc = "finish" => context[cur].attempts = 0

\* error strategy es takes effect on a failure in list tgt
TakesEffect(es, tgt) ==
    \/ es = "fetch_reset" /\ tgt = "fetches"
    \/ es = "execute_reset" /\ tgt = "executes"

\* C18: after a failed call of an entry with error strategy fetch_reset or
\* execute_reset the loop stops if the entry is in the list the strategy
\* names and goes on to the next entry if it is in the other list; a tick
\* with a failure the strategy took effect on runs no execute after a
\* fetch failure and ends with attempts 0.
C18_ListResets ==
    [][/\ (/\ ReturnStep
           /\ Outcome # "success"
           /\ ErrorStrategy \in {"fetch_reset", "execute_reset"}) =>
              IF TakesEffect(ErrorStrategy, target) THEN Stops ELSE GoesOn
       /\ FinishStep =>
              \A tgt \in tick.failed :
                  (\E es \in ListErrorStrategies(tgt) : TakesEffect(es, tgt)) =>
                      /\ context[cur].attempts = 0
                      /\ tgt = "fetches" => Called("executes") = {}]_vars

\* C19: after a failed call of an entry with error strategy skip the loop
\* goes on to the next entry, and the failure leaves attempts as it was.
C19_SkipGoesOn ==
    [][(ReturnStep /\ Outcome # "success" /\ ErrorStrategy = "skip") =>
          /\ GoesOn
          /\ context'[cur].attempts = context[cur].attempts]_vars

\* C20: a wrapped call that ends in a failure (error or timeout) has made
\* retries + 1 attempts: every attempt failed and every retry was used.
C20_FailureUsesRetries ==
    [][(ReturnStep /\ Outcome # "success") =>
          tries + 1 = CurPlugins[idx].retries + 1]_vars

\* the result record of an action holds a result; it holds a captured error
HasResult(plugin) == plugin.result # None
HasError(plugin) == plugin.exception # "None"

\* C21: every wrapped call returns to the loop, and when it ended in a
\* failure (error or timeout, also a timeout on the last attempt) the action
\* holds the failure as its captured error, so that assess_strategy reads
\* the action as failed.
C21_FailureIsCaptured ==
    [][(ReturnStep /\ Outcome # "success") =>
          /\ HasError(CurPlugins[idx])
          /\ assess_strategy([CurPlugins[idx] EXCEPT !.strategy = "success_stop"])
          /\ ~assess_strategy([CurPlugins[idx] EXCEPT !.strategy = "failure_stop"])]_vars

\* C22: no action ever holds both a result and a captured error, and when a
\* wrapped call returns to the loop its action holds exactly one of them.
C22_ResultXorError ==
    [][/\ \A w \in DOMAIN context, tgt \in {"fetches", "executes"} :
              \A i \in DOMAIN Plugins(context[w], tgt) :
                  ~(HasResult(Plugins(context[w], tgt)[i])
                    /\ HasError(Plugins(context[w], tgt)[i]))
       /\ ReturnStep =>
              (HasResult(CurPlugins[idx]) # HasError(CurPlugins[idx]))]_vars

\* the evaluation of an expression on its own is over
Evaluated == expr.stage = "evaluated"

\* the values a literal of the text stands for, one by one
Elements(seq) == {v \in ExprValues : \E i \in 1..Len(seq) : seq[i] = v}
ElementsOf(token) ==
    IF token \in DOMAIN expr.variables THEN Elements(expr.variables[token])
                                       ELSE {}

\* the variables with every absent name given an empty sequence
Filled(variables) ==
    [n \in Literals \ {"empty"} |->
        IF n \in DOMAIN variables THEN variables[n] ELSE <<>>]

\* C27: evaluate raises no error when a name is absent from the variables,
\* and its result is the one it gives with the absent names mapped to an
\* empty sequence; "missing == empty" with no variables is true.
C27_AbsentIsEmpty ==
    Evaluated =>
        /\ expr.result.ok
        /\ expr.result.val = evaluate(expr.tree,
                                      Mapping(Filled(expr.variables))).val
        /\ (expr.text = <<"missing", "==", "empty">>
            /\ DOMAIN expr.variables = {}) => expr.result.val

\* "missing == empty" was evaluated with no variables
C27_Witness ==
    /\ Evaluated
    /\ expr.text = <<"missing", "==", "empty">>
    /\ DOMAIN expr.variables = {}
    /\ expr.result.val

\* A is contained in B, value by value
Within(A, B) == \A v \in ExprValues : v \in A => v \in B

\* the relation a comparison operator stands for
Relation(token, A, B) ==
    CASE token = "==" -> Within(A, B) /\ Within(B, A)
      [] token = "!=" -> ~(Within(A, B) /\ Within(B, A))
      [] token = "<=" -> Within(A, B)
      [] token = ">=" -> Within(B, A)
      [] token = "<" -> Within(A, B) /\ \E v \in B : v \notin A
      [] token = ">" -> Within(B, A) /\ \E v \in A : v \notin B

\* C28: the evaluation of "x OP y" is the relation OP stands for between the
\* sets of the values of x and of y: equality, inequality, subset, superset,
\* proper subset, proper superset; "x < x" and "x > x" are false and
\* "x <= x" is true.
C28_StandardRelations ==
    (Evaluated /\ expr.text \in Comparisons) =>
        /\ expr.result.ok
        /\ expr.result.val = Relation(expr.text[2], ElementsOf(expr.text[1]),
                                      ElementsOf(expr.text[3]))
        /\ expr.text[1] = expr.text[3] =>
               expr.result.val = (expr.text[2] \in {"==", "<=", ">="})

\* "a < b" was evaluated true for a proper subset
C28_Witness ==
    /\ Evaluated
    /\ expr.text = <<"a", "<", "b">>
    /\ DOMAIN expr.variables = {"a", "b"}
    /\ expr.variables["a"] = <<1>>
    /\ expr.variables["b"] = <<1, 2>>
    /\ expr.result.val

\* the sequences of the same values as seq, in any order and repeated
SameValues(seq) == {other \in ValueSeqs : Elements(other) = Elements(seq)}

\* C29: the evaluation gives the same result when the sequence of a
\* variable is replaced by any sequence of the same values, in whatever
\* order and however often repeated; "a == b" with a = [1, 2] and
\* b = [2, 1] is true.
C29_OrderAndRepeatsIrrelevant ==
    Evaluated =>
        /\ \A name \in DOMAIN expr.variables :
               \A other \in SameValues(expr.variables[name]) :
                   evaluate(expr.tree,
                            Mapping([expr.variables EXCEPT ![name] = other]))
                       = expr.result
        /\ (/\ expr.text = <<"a", "==", "b">>
            /\ DOMAIN expr.variables = {"a", "b"}
            /\ expr.variables["a"] = <<1, 2>>
            /\ expr.variables["b"] = <<2, 1>>) => expr.result.val

\* "a == b" was evaluated true with a = [1, 2] and b = [2, 1]
C29_Witness ==
    /\ Evaluated
    /\ expr.text = <<"a", "==", "b">>
    /\ DOMAIN expr.variables = {"a", "b"}
    /\ expr.variables["a"] = <<1, 2>>
    /\ expr.variables["b"] = <<2, 1>>
    /\ expr.result.val

\* the set a set operator makes of A and B
Combined(token, A, B) ==
    {v \in ExprValues :
        CASE token = "&" -> v \in A /\ v \in B
          [] token = "|" -> v \in A \/ v \in B
          [] token = "-" -> v \in A /\ v \notin B
          [] token = "^" -> (v \in A) # (v \in B)}

\* C30: a bare chain "x o1 y o2 z" compiles to the tree of "(x o1 y) o2 z"
\* and evaluates as that, for every pair of the four set operators, and
\* "x o1 (y o2 z)" compiles to the tree the parentheses name and evaluates
\* as that.
C30_LeftAssociative ==
    LET t == expr.text
        compiled == expr.stage \in {"compiled", "evaluated"}
    IN  /\ t \in Chains =>
              /\ expr.stage # "rejected"
              /\ compiled =>
                     expr.tree =
                         Node("equal",
                              Node(Alias(t[4]),
                                   Node(Alias(t[2]), Variable(t[1]),
                                        Variable(t[3])),
                                   Variable(t[5])),
                              Empty)
              /\ Evaluated =>
                     expr.result.val =
                         (Combined(t[4],
                                   Combined(t[2], ElementsOf(t[1]),
                                            ElementsOf(t[3])),
                                   ElementsOf(t[5])) = {})
        /\ t \in Grouped =>
              /\ expr.stage # "rejected"
              /\ compiled =>
                     expr.tree =
                         Node("equal",
                              Node(Alias(t[2]), Variable(t[1]),
                                   Node(Alias(t[5]), Variable(t[4]),
                                        Variable(t[6]))),
                              Empty)
              /\ Evaluated =>
                     expr.result.val =
                         (Combined(t[2], ElementsOf(t[1]),
                                   Combined(t[5], ElementsOf(t[4]),
                                            ElementsOf(t[6]))) = {})

\* "a - b | a == empty" was evaluated false with a = b = [1]: (a - b) | a
\* is not empty, while a - (b | a) is
C30_Witness ==
    /\ Evaluated
    /\ expr.text = <<"a", "-", "b", "|", "a", "==", "empty">>
    /\ DOMAIN expr.variables = {"a", "b"}
    /\ expr.variables["a"] = <<1>>
    /\ expr.variables["b"] = <<1>>
    /\ ~expr.result.val

\* no watcher has run any part of a tick
NoTickRan ==
    /\ cur = 0
    /\ tick = NoTick
    /\ workq = <<>>
    /\ running = <<>>
    /\ \A w \in DOMAIN context :
           /\ context[w] = [context[w] EXCEPT !.attempts = 0]
           /\ \A tgt \in {"fetches", "executes"} :
                  \A i \in DOMAIN Plugins(context[w], tgt) :
                      /\ ~HasResult(Plugins(context[w], tgt)[i])
                      /\ ~HasError(Plugins(context[w], tgt)[i])
    /\ \A i \in DOMAIN queue : queue[i].time = 0

\* C26: when the initialisation of a watcher fails no watcher has run any
\* part of a tick, and from then on the scheduler is never run: the events
\* of the watchers initialised before stay in the queue for ever.
C26_InitFailureStartsNothing ==
    [][/\ pc' = "failed" => NoTickRan'
       /\ pc = "failed" => (pc' = "failed" /\ queue' = queue /\ NoTickRan')]_vars

\* the initialisation failed after a watcher had been entered
C26_Witness ==
    /\ pc = "failed"
    /\ queue # <<>>

\* the work queue has room for the retries left to the call being waited for
Room == Len(workq) + CurPlugins[idx].retries - tries <= MaxPending

\* the step in which a wait ends by the timeout
TimeoutStep == pc = "wait" /\ ~done /\ (tries' = tries + 1 \/ pc' = "plugins")

\* C23: a wait for a call ends even if the call never returns: the timeout
\* ends every attempt and leaves the call where it is, queued or running,
\* and after the last attempt the call returns to the loop of the tick.
C23_TimeoutEndsTheWait ==
    /\ [][TimeoutStep =>
             /\ Len(running') = Len(running)
             /\ Len(workq') >= Len(workq)
             /\ \A i \in DOMAIN running : ~running'[i].live]_vars
    /\ (pc = "wait" /\ Room) ~> (pc = "plugins")

\* the tick is at its evaluation after the fetch timed out on every attempt,
\* and the call is still running
C23_Witness ==
    /\ pc = "evaluate"
    /\ tick.failed = {"fetches"}
    /\ tries = MaxRetries
    /\ running # <<>>
    /\ ~done

\* the watcher has an event in the queue of the scheduler
Scheduled(w) == \E i \in DOMAIN queue : queue[i].w = w

C25_EscapedFaultEndsWatcher ==
    [][/\ pc' = "crashed" =>
              /\ cur' # 0
              /\ \A i \in DOMAIN queue' : queue'[i].w # cur'
       /\ pc = "crashed" =>
              /\ pc' = "crashed"
              /\ cur' = cur
              /\ queue' = queue]_vars

\* an exception has escaped a tick after an execute action had returned
C25_Witness ==
    /\ pc = "crashed"
    /\ \E w \in DOMAIN context : HasResult(context[w].executes[1])

\* a text read from token i on is a set calculation: literals and
\* parenthesised calculations joined by set operators, parentheses balanced
RECURSIVE Scan(_, _, _, _)
Scan(tokens, i, operand, depth) ==
    IF i > Len(tokens) THEN ~operand /\ depth = 0
    ELSE IF operand
    THEN IF tokens[i] \in Literals THEN Scan(tokens, i + 1, FALSE, depth)
         ELSE IF tokens[i] = "(" THEN Scan(tokens, i + 1, TRUE, depth + 1)
         ELSE FALSE
    ELSE IF tokens[i] \in SetTokens THEN Scan(tokens, i + 1, TRUE, depth)
         ELSE IF tokens[i] = ")" /\ depth > 0
         THEN Scan(tokens, i + 1, FALSE, depth - 1)
         ELSE FALSE

WellFormed(tokens) == Scan(tokens, 1, TRUE, 0)

\* a text with exactly one comparison operator and a set calculation on
\* each side of it (the operator is then outside every parenthesis)
Acceptable(text) ==
    \E k \in DOMAIN text :
        /\ {j \in DOMAIN text : text[j] \in ComparisonTokens} = {k}
        /\ WellFormed(SubSeq(text, 1, k - 1))
        /\ WellFormed(SubSeq(text, k + 1, Len(text)))

\* C31: compile accepts a text exactly if it has one comparison operator,
\* outside every parenthesis, with a set calculation on each side; a text
\* with no comparison, with two, with the comparison in parentheses or with
\* a dangling operator is rejected.
C31_OneTopLevelComparison ==
    expr.stage # "text" =>
        /\ (expr.stage # "rejected") <=> Acceptable(expr.text)
        /\ expr.text \in {<<"a", "&", "a">>,
                          <<"a", "==", "a", "==", "a">>,
                          <<"(", "a", "==", "a", ")">>,
                          <<"a", "&", "&">>} => expr.stage = "rejected"

\* "(a == a)" was rejected
C31_Witness ==
    /\ expr.stage = "rejected"
    /\ expr.text = <<"(", "a", "==", "a", ")">>

\* the step in which a call of _execute returns on the worker thread
StoreStep == running # <<>> /\ running' = <<>> /\ context' # context
                /\ HasResult(Plugins(context'[running[1].w],
                                     running[1].target)[running[1].idx])

\* C32: what an action has stored in extra is in the extra of its watcher
\* from the step its call returns, and nothing is ever taken out of it, so
\* every action called later, in this tick or a later one, finds it there.
C32_ExtraIsSharedAndKept ==
    [][/\ \A w \in DOMAIN context : context[w].extra \subseteq context'[w].extra
       /\ StoreStep =>
              Plugins(context[running[1].w],
                      running[1].target)[running[1].idx].plugin.stores
                  \subseteq context'[running[1].w].extra]_vars

\* the first fetch of a tick is called and finds the key an execute action
\* stored in an earlier tick
C32_Witness ==
    /\ pc = "wait"
    /\ target = "fetches"
    /\ idx = 1
    /\ ExtraKeys \subseteq context[cur].extra
    /\ context[cur].executes[1].plugin.stores = ExtraKeys
    /\ context[cur].fetches[1].plugin.stores # ExtraKeys

\* C33: the values the expression is evaluated on come from the fetch
\* actions called in this tick only: a fetch action the loop did not reach
\* contributes no value.
C33_SkippedFetchIsEmpty ==
    tick.evaluated =>
        \A i \in DOMAIN tick.fetched :
            i > Cardinality(Called("fetches")) => tick.fetched[i] = <<>>

\* the tick is inside the wrapped call of action i of list tgt of watcher w
Invoking(w, tgt, i) == pc = "wait" /\ cur = w /\ target = tgt /\ idx = i

\* C34: outside the wrapped call of an action, that is from the return of
\* the call to the tick until the scheduler thread calls the action again,
\* no step changes the result and the exception the action holds.
C34_RecordKeptAfterReturn ==
    [][\A w \in DOMAIN context : \A tgt \in {"fetches", "executes"} :
           \A i \in DOMAIN Plugins(context[w], tgt) :
               ~Invoking(w, tgt, i) =>
                   Plugins(context'[w], tgt)[i] = Plugins(context[w], tgt)[i]]_vars

\* the worker starts a call; a call given up by its waiter is running
StartStep == running' # <<>> /\ running' # running /\ running' # Abandon(running)
Blocked == running # <<>> /\ ~running[1].live

\* C35: the one worker runs one call at a time and takes the calls in the
\* order they were submitted, so a call starts only when no earlier call is
\* running; a wrapped call that returns to its tick while a call given up
\* earlier is still running has ended in a timeout.
C35_OneCallAtATime ==
    [][/\ StartStep =>
              /\ running = <<>>
              /\ workq # <<>>
              /\ running' = <<Head(workq)>>
              /\ workq' = Tail(workq)
       /\ (ReturnStep /\ Blocked) => Outcome = "timeout"]_vars

\* the fetch call of one watcher has ended in a failure without having been
\* started: it is still queued behind the timed-out call of another watcher
C35_Witness ==
    /\ pc = "plugins"
    /\ target = "fetches"
    /\ idx = 2
    /\ "fetches" \in tick.failed
    /\ Blocked
    /\ running[1].w # cur
    /\ \E i \in DOMAIN workq : workq[i].w = cur /\ workq[i].target = "fetches"

\* C36: when the scheduler thread keeps running and every call handed to
\* the worker returns, every watcher is ticked again and again, whatever the
\* intervals of the watchers are.
C36_NoWatcherStarves == \A w \in 1..NumWatchers : []<>(cur = w)

\* a watcher with the longest interval is ticked while a watcher of a
\* shorter interval, which was ticked before it, is overdue again
C36_Witness ==
    /\ cur # 0
    /\ context[cur].interval = MaxInterval
    /\ pc = "plugins"
    /\ \E i \in DOMAIN queue :
           /\ queue[i].w < cur
           /\ context[queue[i].w].interval < MaxInterval
           /\ queue[i].time < 0

\* C37: a fault that escapes the tick of one watcher does not stop the
\* scheduler: while events of other watchers are in the queue, the
\* scheduler can run the next of them.
C37_FaultLeavesOthersScheduled ==
    (pc = "crashed" /\ queue # <<>>) => ENABLED RunEvent

C39_RaiseIsRetried ==
    [][/\ (ReturnStep /\ Outcome = "error") => tries = CurPlugins[idx].retries
       /\ (ReturnStep /\ Outcome = "success" /\ done) =>
              HasResult(CurPlugins[idx])]_vars

\* a step of the worker thread: it takes or finishes a work item
WorkerStep == Len(running') # Len(running)

\* C10: no step of the executor's worker thread changes the state of a
\* watcher (attempts, extra, the result and exception of its actions).
C10_SchedulerThreadOnly == [][WorkerStep => context' = context]_vars

====
